---------------------------- MODULE Spec2Model ----------------------------
(***************************************************************************)
(* A model of the demographic simulation engine of                         *)
(* src/src/ReproductiveAgeExplorer.jsx: the Siler mortality model, the     *)
(* Gaussian fertility schedule with its biological cap, initialize,        *)
(* simulateStep, the history log and its scrub/playback cursor, and the    *)
(* React scheduling that decides which closure a handler runs with.        *)
(*                                                                         *)
(* Numbers.  The program computes in IEEE doubles; the model computes in   *)
(* fixed point and rounds every product and quotient down:                 *)
(*   - probabilities, fertility rates, sex ratio and values of Math.exp    *)
(*     are in thousandths (Milli);                                         *)
(*   - hazards and arguments of Math.exp are in millionths (Micro);        *)
(*   - cohort sizes, births and deaths are in hundredths of a person       *)
(*     (PopScale);                                                         *)
(*   - meanParentAge and the dependency ratio are in hundredths (Centi).   *)
(* Equalities the program satisfies "within floating tolerance" are        *)
(* stated within the rounding of the last fixed-point digit.               *)
(*                                                                         *)
(* Age grid.  The program keeps numAges = 100 one-year cohorts.  The model *)
(* keeps NumAges cohorts, cohort i standing for the age RealAge(i) =       *)
(* i * AgeStep; every age constant of the program (the fertile window      *)
(* 12..54, the working ages 15..64, the scenario peaks, ...) keeps its     *)
(* value in years and is applied to RealAge(i).  A step moves cohort i to   *)
(* cohort i + 1, as the program's step moves age a to age a + 1.           *)
(***************************************************************************)
EXTENDS Integers, Sequences, FiniteSets, TLC

Milli == 10 ^ 3
Micro == 10 ^ 6
PopScale == 10 ^ 2
Centi == 10 ^ 2

(* ------------------------------ bounds -------------------------------- *)
NumAges == 5
MaxHistory == 3
MaxEdits == 1
RunLength == 12

\* const numAges = 100: the cohorts of the program itself.
numAges == 100

AgeStep == numAges \div NumAges
Ages == 0 .. (NumAges - 1)
RealAge(i) == i * AgeStep

(* ------------------------------- inputs -------------------------------- *)
\* The values the sliders are moved to, beside the useState defaults.
ScenarioKeys == {"baseline", "early", "late", "bimodal", "custom"}
TotalFertilityValues == {800, 2100}
LifeExpectancyValues == {30, 75}
SexRatioBirthValues == {400, 488}
PeakFertilityAgeValues == {27, 40}
FertilitySpreadValues == {2000, 7000}
InitialPopulationValues == {1000, 10000}

(* -------------------------- fixed-point helpers ------------------------ *)
Min(a, b) == IF a < b THEN a ELSE b
Max(a, b) == IF a > b THEN a ELSE b
Abs(a) == IF a < 0 THEN 0 - a ELSE a

\* floor(a * b / c) for a, b >= 0 and c > 0, without forming a * b.
MulDiv(a, b, c) == (a \div c) * b + ((a % c) * b) \div c

RECURSIVE SumFrom(_, _, _)
\* arr.slice(lo, hi).reduce((a, b) => a + b, 0) over a 1-based sequence
\* holding the cohorts lo .. hi-1.
SumFrom(arr, lo, hi) ==
  IF lo >= hi THEN 0
  ELSE IF lo + 1 = hi THEN arr[lo + 1]
  ELSE SumFrom(arr, lo, (lo + hi) \div 2) + SumFrom(arr, (lo + hi) \div 2, hi)

Sum(arr) == SumFrom(arr, 0, Len(arr))

\* The array f[lo], ..., f[hi], put together from its two halves.
RECURSIVE ArrayRange(_, _, _)
ArrayRange(f, lo, hi) ==
  IF lo > hi THEN << >>
  ELSE IF lo = hi THEN << f[lo] >>
  ELSE ArrayRange(f, lo, (lo + hi) \div 2)
       \o ArrayRange(f, (lo + hi) \div 2 + 1, hi)

\* new Array(n) filled from f: the array f[1], ..., f[n].
ArrayUpTo(f, n) == ArrayRange(f, 1, n)

Array(f) == ArrayUpTo(f, NumAges)

(* ------------------------------ Math.exp ------------------------------- *)
\* e^(f / 10^4) * 10^4 for 0 <= f < 10^4: the Taylor series, summed until
\* the term rounds to 0.
RECURSIVE ExpSeries(_, _, _, _)
ExpSeries(f, k, term, acc) ==
  IF term = 0 THEN acc
  ELSE ExpSeries(f, k + 1, (term * f) \div (10000 * (k + 1)), acc + term)

\* v * e^n for an integer n, one factor e (27183 / 10^4) or 1/e
\* (3679 / 10^4) at a time.
RECURSIVE ExpPow(_, _)
ExpPow(n, v) ==
  IF n = 0 \/ v = 0 THEN v
  ELSE IF n > 0 THEN ExpPow(n - 1, MulDiv(v, 27183, 10000))
  ELSE ExpPow(n + 1, MulDiv(v, 3679, 10000))

\* Math.exp(x): x in millionths, the result in thousandths.
MathExp(x) ==
  LET n == x \div Micro
      f == (x % Micro) \div 100
  IN  ExpPow(n, ExpSeries(f, 0, 10000, 0)) \div 10

(* --------------------------- mortality model --------------------------- *)
MALE_INFANT_MULTIPLIER == 120
MALE_BACKGROUND_MULTIPLIER == 150
MALE_SENESCENT_MULTIPLIER == 115
MAX_HAZARD == 600000

\* Siler hazard at `age` (years) for life-expectancy target e0 (years), in
\* millionths per year; the male multipliers are in hundredths.
getMortalityRate(age, e0, isMale) ==
  LET alpha1 == MulDiv(15000, MathExp((75 - e0) * 55000), Milli)
      infantMortality == MulDiv(alpha1, MathExp(0 - 700000 * age), Milli)
      alpha2 == MulDiv(400, MathExp((75 - e0) * 15000), Milli)
      alpha3 == MulDiv(20, MathExp((80 - e0) * 55000), Milli)
      senescentMortality == MulDiv(alpha3, MathExp(88000 * age), Milli)
      mortality ==
        IF isMale
          THEN MulDiv(infantMortality, MALE_INFANT_MULTIPLIER, 100)
               + MulDiv(alpha2, MALE_BACKGROUND_MULTIPLIER, 100)
               + MulDiv(senescentMortality, MALE_SENESCENT_MULTIPLIER, 100)
          ELSE infantMortality + alpha2 + senescentMortality
  IN  Min(mortality, MAX_HAZARD)

\* Math.exp(-mortality) of the cohort i, in thousandths: the probability of
\* surviving one step out of cohort i.  The values are computed once.
survivalTable ==
  [e0 \in LifeExpectancyValues |-> [isMale \in BOOLEAN |-> [i \in Ages |->
     MathExp(0 - getMortalityRate(RealAge(i), e0, isMale))]]]

survivalProb(i, e0, isMale) == survivalTable[e0][isMale][i]

\* survival[age] = survival[age - 1] * Math.exp(-mortality).
pushSurvival(curve, age, e0, isMale) ==
  Append(curve, MulDiv(curve[age], survivalProb(age - 1, e0, isMale), Milli))

RECURSIVE SurvivalUpTo(_, _, _)
SurvivalUpTo(i, e0, isMale) ==
  IF i = 0 THEN << Milli >>
  ELSE pushSurvival(SurvivalUpTo(i - 1, e0, isMale), i, e0, isMale)

\* l(a): l(0) = 1, l(a) = l(a-1) * exp(-mu(a-1)), in thousandths; the
\* curves are computed once.
survivalCurves ==
  [e0 \in LifeExpectancyValues |-> [isMale \in BOOLEAN |->
     SurvivalUpTo(NumAges - 1, e0, isMale)]]

getSurvivalCurve(e0, isMale) == survivalCurves[e0][isMale]

calculateLifeExpectancy(curve) == Sum(curve)

(* --------------------------- fertility model --------------------------- *)
MAX_ASFR == 1100
MIN_SIGMA == 2500
FERTILE_FROM == 12
FERTILE_TO == 55
DECLINE_AGE == 40
NoPeak == 0

Fertile(i) == RealAge(i) >= FERTILE_FROM /\ RealAge(i) < FERTILE_TO

\* The age of cohort i of an array of n cohorts, and whether the loop
\* for (age = 12; age < 55; age++) visits it.
AgeOn(n, i) == i * (numAges \div n)
FertileOn(n, i) == AgeOn(n, i) >= FERTILE_FROM /\ AgeOn(n, i) < FERTILE_TO

\* Math.exp(-((age - peak) ** 2) / (2 * sigma ** 2)), sigma in thousandths
\* of a year (a multiple of 0.1), the result in thousandths.
Gaussian(age, peak, sigma) ==
  LET d2 == (age - peak) * (age - peak)
      D == 2 * (sigma \div 100) * (sigma \div 100)
      q == (d2 * 100) \div D
      r == (d2 * 100) % D
  IN  MathExp(0 - (q * Micro + MulDiv(Micro, r, D)))

\* The raw shape of one fertile age: (primary + secondary) * decline.
rawFertility(age, peak, sigma, secondPeak) ==
  LET primary == Gaussian(age, peak, sigma)
      secondary == IF secondPeak # NoPeak /\ Abs(secondPeak - peak) > 5
                     THEN MulDiv(Gaussian(age, secondPeak, sigma), 600, Milli)
                     ELSE 0
      biologicalDecline == IF age > DECLINE_AGE
                             THEN MathExp(0 - 100000 * (age - DECLINE_AGE))
                             ELSE Milli
  IN  MulDiv(primary + secondary, biologicalDecline, Milli)

\* The raw schedule: the shape on the fertile cohorts, 0 elsewhere.
rawScheduleOn(n, peak, sigma, secondPeak) ==
  ArrayUpTo([i \in 1 .. n |->
               IF FertileOn(n, i - 1)
                 THEN rawFertility(AgeOn(n, i - 1), peak, sigma, secondPeak)
                 ELSE 0], n)

rawSchedule(peak, sigma, secondPeak) ==
  rawScheduleOn(NumAges, peak, sigma, secondPeak)

\* A faulty normalisation, which never scales below the lowest TFR of the
\* slider.
normalisedSchedule_sliderFloor(raw, sum, tfr) ==
  ArrayUpTo([i \in 1 .. Len(raw) |-> MulDiv(Max(tfr, 800), raw[i], sum)],
            Len(raw))

\* schedule.map(f => (f / sum) * tfr), in the unit of tfr.
normalisedSchedule(raw, sum, tfr) ==
  ArrayUpTo([i \in 1 .. Len(raw) |-> MulDiv(tfr, raw[i], sum)], Len(raw))

\* A faulty cap, which lets every value through.
cappedSchedule_noCeiling(schedule, cap) == schedule

\* schedule.map(f => Math.min(f, MAX_ASFR)); cap is MAX_ASFR in the unit of
\* the schedule.
cappedSchedule(schedule, cap) ==
  ArrayUpTo([i \in 1 .. Len(schedule) |-> Min(schedule[i], cap)],
            Len(schedule))

\* The cohorts that can take up lost fertility: fertile and below the cap.
canReceive(capped, cap) ==
  {i \in 1 .. Len(capped) : capped[i] < cap /\ FertileOn(Len(capped), i - 1)}

\* capped.map: an equal share of the lost fertility to every cohort that
\* can receive it, again capped.
redistributedSchedule(capped, lostFertility, receivers, cap) ==
  ArrayUpTo([i \in 1 .. Len(capped) |->
               IF i \in receivers
                 THEN Min(capped[i]
                            + lostFertility \div Cardinality(receivers),
                          cap)
                 ELSE capped[i]], Len(capped))

\* The returned array with the two properties the program hangs on it.
scheduleResult(redistributed, isCapped) ==
  [schedule |-> redistributed, biologicallyCapped |-> isCapped,
   effectiveTFR |-> Sum(redistributed)]

\* isCapped = totalCapped < tfr * 0.99, and the redistribution under it.
capAndRedistribute(capped, totalCapped, tfr, cap) ==
  IF totalCapped * 100 < tfr * 99 /\ canReceive(capped, cap) # {}
    THEN scheduleResult(
           redistributedSchedule(capped, tfr - totalCapped,
                                 canReceive(capped, cap), cap),
           TRUE)
    ELSE scheduleResult(capped, totalCapped * 100 < tfr * 99)

\* Normalisation to the TFR and the cap.  On the early return (sum = 0) the
\* program sets neither property: biologicallyCapped reads as falsy and
\* effectiveTFR as the sum of the zero schedule wherever they are used.
normaliseAndCap(raw, sum, tfr, cap) ==
  IF sum = 0
    THEN [schedule |-> raw, biologicallyCapped |-> FALSE, effectiveTFR |-> 0]
    ELSE capAndRedistribute(
           cappedSchedule(normalisedSchedule(raw, sum, tfr), cap),
           Sum(cappedSchedule(normalisedSchedule(raw, sum, tfr), cap)),
           tfr, cap)

scheduleFromRaw(raw, tfr, cap) == normaliseAndCap(raw, Sum(raw), tfr, cap)

\* getFertilitySchedule, computed: the schedule is in thousandths of a birth
\* per woman per year, one value per cohort.
computeSchedule(peak, spreadVal, secondPeak, tfr) ==
  scheduleFromRaw(rawSchedule(peak, Max(spreadVal, MIN_SIGMA), secondPeak),
                  tfr, MAX_ASFR)

\* getFertilitySchedule on the program's own cohorts, one per year of age,
\* the TFR in thousandths as everywhere, the schedule and its effectiveTFR
\* in millionths of a birth: fine enough for the 1% of isCapped.
yearlySchedule(peak, spreadVal, secondPeak, tfr) ==
  scheduleFromRaw(rawScheduleOn(numAges, peak, Max(spreadVal, MIN_SIGMA),
                                secondPeak),
                  tfr * Milli, MAX_ASFR * Milli)

\* The schedules of the scenario presets and of the slider values,
\* computed once.
scheduleInputs ==
  {<<27, 7000, NoPeak>>, <<21, 5000, NoPeak>>, <<33, 6000, NoPeak>>,
   <<20, 4000, 35>>}
  \cup {<<p, s, NoPeak>> : p \in PeakFertilityAgeValues,
                           s \in FertilitySpreadValues}

scheduleTable ==
  [k \in scheduleInputs |-> [tfr \in TotalFertilityValues |->
     computeSchedule(k[1], k[2], k[3], tfr)]]

getFertilitySchedule(peak, spreadVal, secondPeak, tfr) ==
  IF <<peak, spreadVal, secondPeak>> \in scheduleInputs
     /\ tfr \in TotalFertilityValues
    THEN scheduleTable[<<peak, spreadVal, secondPeak>>][tfr]
    ELSE computeSchedule(peak, spreadVal, secondPeak, tfr)

(* ------------------------------ the state ------------------------------ *)
VARIABLES
  isPlaying,            \* useState(false), line 21
  time,                 \* useState(0), line 22
  scrubIndex,           \* useState(null), line 23: Null = live view
  isPlayingHistory,     \* useState(false), line 24
  scenario,             \* useState('baseline'), line 39
  ageDistribution,      \* line 52: the total track
  maleDistribution,     \* line 53
  femaleDistribution,   \* line 54
  history,              \* line 55
  totalFertility,       \* line 59, thousandths
  lifeExpectancy,       \* line 60, years
  fertilitySpread,      \* line 61, thousandths of a year
  peakFertilityAge,     \* line 62, years
  sexRatioBirth,        \* line 63, thousandths
  initialPopulation,    \* line 64, persons
  debugInfo,            \* line 68
  rendered,             \* the state as of the last render: what every
                        \* closure (handlers, interval callbacks, the ref
                        \* simulateStepRef.current) and the screen hold
  edits                 \* how many times a slider was moved

simVars == << ageDistribution, maleDistribution, femaleDistribution,
              history, time, debugInfo >>
paramVars == << scenario, totalFertility, lifeExpectancy, fertilitySpread,
                peakFertilityAge, sexRatioBirth, initialPopulation >>
vars == << isPlaying, isPlayingHistory, scrubIndex, simVars, paramVars,
           rendered, edits >>

Null == 0 - 1

\* The component's state, as one render sees it.
Snap ==
  [ isPlaying |-> isPlaying, time |-> time, scrubIndex |-> scrubIndex,
    isPlayingHistory |-> isPlayingHistory, scenario |-> scenario,
    ageDistribution |-> ageDistribution,
    maleDistribution |-> maleDistribution,
    femaleDistribution |-> femaleDistribution,
    history |-> history, totalFertility |-> totalFertility,
    lifeExpectancy |-> lifeExpectancy, fertilitySpread |-> fertilitySpread,
    peakFertilityAge |-> peakFertilityAge, sexRatioBirth |-> sexRatioBirth,
    initialPopulation |-> initialPopulation, debugInfo |-> debugInfo ]

(* --------------------------- scenario presets -------------------------- *)
scenarios ==
  [ baseline |-> [peakAge |-> 27, spread |-> 7000, secondPeak |-> NoPeak],
    early    |-> [peakAge |-> 21, spread |-> 5000, secondPeak |-> NoPeak],
    late     |-> [peakAge |-> 33, spread |-> 6000, secondPeak |-> NoPeak],
    bimodal  |-> [peakAge |-> 20, spread |-> 4000, secondPeak |-> 35],
    custom   |-> [peakAge |-> 27, spread |-> 7000, secondPeak |-> NoPeak] ]

\* getEffectiveParams of the render c.
getEffectiveParams(c) ==
  IF c.scenario = "custom"
    THEN [peakAge |-> c.peakFertilityAge, spread |-> c.fertilitySpread,
          secondPeak |-> NoPeak]
    ELSE scenarios[c.scenario]

(* ------------------------------- metrics ------------------------------- *)
\* dist.slice(lo, hi).reduce(+): the cohorts whose age lies in lo .. hi-1.
RECURSIVE SliceFrom(_, _, _, _)
SliceFrom(dist, i, lo, hi) ==
  IF i >= NumAges THEN 0
  ELSE (IF RealAge(i) >= lo /\ RealAge(i) < hi THEN dist[i + 1] ELSE 0)
       + SliceFrom(dist, i + 1, lo, hi)

SliceSum(dist, lo, hi) == SliceFrom(dist, 0, lo, hi)

\* (young + old) / working, in hundredths; 0 when nobody is of working age.
dependencyRatioOf(dist) ==
  LET young == SliceSum(dist, 0, 15)
      old == SliceSum(dist, 65, 100)
      working == SliceSum(dist, 15, 65)
  IN  IF working > 0 THEN MulDiv(young + old, Centi, working) ELSE 0

RECURSIVE MedianFrom(_, _, _, _)
MedianFrom(dist, i, cumulative, total) ==
  IF i >= NumAges THEN 50
  ELSE IF 2 * (cumulative + dist[i + 1]) >= total THEN RealAge(i)
  ELSE MedianFrom(dist, i + 1, cumulative + dist[i + 1], total)

findMedianAge(dist) == MedianFrom(dist, 0, 0, Sum(dist))

(* ------------------------------ initialize ----------------------------- *)
\* sum over the fertile cohorts of weight(i) * term(i), as the two loops
\* "for (let age = 12; age < 55; age++)" accumulate it.
RECURSIVE FertileSum(_, _, _)
FertileSum(term, weighted, i) ==
  IF i >= NumAges THEN 0
  ELSE (IF Fertile(i)
          THEN (IF weighted THEN RealAge(i) ELSE 1) * term[i + 1]
          ELSE 0)
       + FertileSum(term, weighted, i + 1)

\* A faulty fallback: 0 where there are no births.
meanParentAgeOf_zeroFallback(weightedAgeSum, births, peakAge) ==
  IF births > 0 THEN MulDiv(weightedAgeSum, Centi, births)
  ELSE 0

\* weightedAgeSum / births, or the peak age when there are no births; in
\* hundredths of a year.
meanParentAgeOf(weightedAgeSum, births, peakAge) ==
  IF births > 0 THEN MulDiv(weightedAgeSum, Centi, births)
  ELSE peakAge * Centi

\* A faulty scaling, which takes the curve's first value for its sum.
initialDistribution_byFirst(population, survivalCurve, rawTotal) ==
  Array([i \in 1 .. NumAges |->
           MulDiv(population * PopScale, survivalCurve[i], survivalCurve[1])])

\* rawInitial.map(n => n * scaleFactor), in hundredths of a person.
initialDistribution(population, survivalCurve, rawTotal) ==
  Array([i \in 1 .. NumAges |->
           MulDiv(population * PopScale, survivalCurve[i], rawTotal)])

\* initial.map(n => n * 0.5).
halfOf(initial) == Array([i \in 1 .. NumAges |-> initial[i] \div 2])

\* fertilitySchedule[age] * initial[age] * 0.5, per cohort.
initialBirthsAt(initial, fertilitySchedule) ==
  Array([i \in 1 .. NumAges |->
           MulDiv(initial[i], fertilitySchedule[i], Milli) \div 2])

\* initial[age] * (1 - Math.exp(-mortality)), summed over all cohorts.
initialDeathsOf(initial, e0) ==
  Sum(Array([i \in 1 .. NumAges |->
               MulDiv(initial[i], Milli - survivalProb(i - 1, e0, FALSE),
                      Milli)]))

\* What the setters of initialize() receive.
initialState(c, initial, initialBirths, initialDeaths, meanParentAge, fertilitySum) ==
  [ debugInfo |-> [ births |-> initialBirths, deaths |-> initialDeaths,
                    fertilitySum |-> fertilitySum,
                    dependencyRatio |-> dependencyRatioOf(initial),
                    medianAge |-> findMedianAge(initial) ],
    ageDistribution |-> initial,
    maleDistribution |-> halfOf(initial),
    femaleDistribution |-> halfOf(initial),
    time |-> 0,
    scrubIndex |-> Null,
    history |-> << [ time |-> 0, population |-> Sum(initial),
                     births |-> initialBirths, deaths |-> initialDeaths,
                     meanParentAge |-> meanParentAge,
                     dependencyRatio |-> dependencyRatioOf(initial),
                     ageDistribution |-> initial,
                     maleDistribution |-> halfOf(initial),
                     femaleDistribution |-> halfOf(initial),
                     lifeExpectancy |-> c.lifeExpectancy,
                     totalFertility |-> c.totalFertility,
                     peakFertilityAge |-> c.peakFertilityAge,
                     fertilitySpread |-> c.fertilitySpread,
                     sexRatioBirth |-> c.sexRatioBirth ] >> ]

initializeWith(c, peakAge, initial, fertilitySchedule, birthsAt) ==
  initialState(c, initial, FertileSum(birthsAt, FALSE, 0),
               initialDeathsOf(initial, c.lifeExpectancy),
               meanParentAgeOf(FertileSum(birthsAt, TRUE, 0),
                               FertileSum(birthsAt, FALSE, 0), peakAge),
               Sum(fertilitySchedule))

\* A faulty initialize, which starts a new run from the cohorts of the run
\* it ends.
initializeFrom_keepsCohorts(c, params, initial) ==
  initializeWith(c, params.peakAge,
                 IF c.time > 0 THEN c.ageDistribution ELSE initial,
                 getFertilitySchedule(params.peakAge, params.spread,
                                      params.secondPeak,
                                      c.totalFertility).schedule,
                 initialBirthsAt(
                   IF c.time > 0 THEN c.ageDistribution ELSE initial,
                   getFertilitySchedule(params.peakAge, params.spread,
                                        params.secondPeak,
                                        c.totalFertility).schedule))

initializeFrom(c, params, initial) ==
  LET fertilitySchedule ==
        getFertilitySchedule(params.peakAge, params.spread,
                             params.secondPeak, c.totalFertility).schedule
  IN  initializeWith(c, params.peakAge, initial, fertilitySchedule,
                     initialBirthsAt(initial, fertilitySchedule))

\* initialize() of the render c, whose survivalCurve is the memo of
\* getSurvivalCurve(lifeExpectancy, false).
initialize(c) ==
  LET survivalCurve == getSurvivalCurve(c.lifeExpectancy, FALSE)
  IN  initializeFrom(c, getEffectiveParams(c),
                     initialDistribution(c.initialPopulation, survivalCurve,
                                         Sum(survivalCurve)))

(* ----------------------------- simulateStep ---------------------------- *)
\* A faulty split of the births: the boys get the girls' share.
maleBirths_sameShare(births, srb) == MulDiv(births, srb, Milli)

\* births * sexRatioBirth and births * (1 - sexRatioBirth).
femaleBirths(births, srb) == MulDiv(births, srb, Milli)
maleBirths(births, srb) == MulDiv(births, Milli - srb, Milli)

\* A faulty ageing: the sign of the survival term is slipped and the result
\* is not clamped.
agedTrack_signSlip(old, newborns, e0, isMale) ==
  Array([i \in 1 .. NumAges |->
           IF i = 1 THEN newborns
           ELSE MulDiv(old[i - 1], survivalProb(i - 2, e0, isMale) - Milli,
                       Milli)])

\* A faulty ageing with an open-ended oldest group, whose survivors stay in
\* it.
agedTrack_openEnded(old, newborns, e0, isMale) ==
  Array([i \in 1 .. NumAges |->
           IF i = 1 THEN newborns
           ELSE Max(0, MulDiv(old[i - 1], survivalProb(i - 2, e0, isMale),
                              Milli))
                + (IF i = NumAges
                     THEN MulDiv(old[i], survivalProb(i - 1, e0, isMale), Milli)
                     ELSE 0)])

\* One track aged by a year: cohort 0 is `newborns`, cohort a > 0 is
\* Math.max(0, old[a - 1] * survivalProb).
agedTrack(old, newborns, e0, isMale) ==
  Array([i \in 1 .. NumAges |->
           IF i = 1 THEN newborns
           ELSE Max(0, MulDiv(old[i - 1], survivalProb(i - 2, e0, isMale),
                              Milli))])

\* deaths: old[a - 1] * (1 - survivalProb) for a = 1 .. numAges-1, plus the
\* whole oldest cohort; the hazard is that of getMortalityRate(age - 1,
\* lifeExpectancy), whose isMale defaults to false.
stepDeaths(old, e0) ==
  LET diedAt == [i \in 1 .. NumAges - 1 |->
                   MulDiv(old[i], Milli - survivalProb(i - 1, e0, FALSE), Milli)]
  IN  Sum(diedAt) + old[NumAges]

\* A faulty log, which appends the newest entry it holds once more.
appendEntry_repeatsNewest(h, entry) == Append(h, h[Len(h)])

\* A faulty log: a window that drops its oldest entry on every append.
appendEntry_dropsOldest(h, entry) == Append(Tail(h), entry)

\* setHistory(h => [...h, entry]).
appendEntry(h, entry) == Append(h, entry)

\* asfr * femaleDistribution[age], per cohort.
birthsFromAge(femaleDist, fertilitySchedule) ==
  Array([i \in 1 .. NumAges |->
           MulDiv(femaleDist[i], fertilitySchedule[i], Milli)])

\* What the setters of simulateStep() receive; `entry` is the history
\* entry, whose time is the closure's time + 1.
stepResult(c, births, deaths, meanParentAge, fertilitySum, newFemale, newMale, newDist) ==
  [ femaleDistribution |-> newFemale,
    maleDistribution |-> newMale,
    ageDistribution |-> newDist,
    debugInfo |-> [ births |-> births, deaths |-> deaths,
                    fertilitySum |-> fertilitySum,
                    dependencyRatio |-> dependencyRatioOf(newDist),
                    medianAge |-> findMedianAge(newDist) ],
    entry |-> [ time |-> c.time + 1, population |-> Sum(newDist),
                births |-> births, deaths |-> deaths,
                meanParentAge |-> meanParentAge,
                dependencyRatio |-> dependencyRatioOf(newDist),
                ageDistribution |-> newDist,
                maleDistribution |-> newMale,
                femaleDistribution |-> newFemale,
                lifeExpectancy |-> c.lifeExpectancy,
                totalFertility |-> c.totalFertility,
                peakFertilityAge |-> c.peakFertilityAge,
                fertilitySpread |-> c.fertilitySpread,
                sexRatioBirth |-> c.sexRatioBirth ] ]

\* The new tracks: the female and the male one under their own hazards,
\* the total one under getMortalityRate(age - 1, lifeExpectancy), whose
\* isMale defaults to false.
stepWith(c, births, meanParentAge, fertilitySum) ==
  stepResult(c, births, stepDeaths(c.ageDistribution, c.lifeExpectancy),
             meanParentAge, fertilitySum,
             agedTrack(c.femaleDistribution,
                       femaleBirths(births, c.sexRatioBirth),
                       c.lifeExpectancy, FALSE),
             agedTrack(c.maleDistribution,
                       maleBirths(births, c.sexRatioBirth),
                       c.lifeExpectancy, TRUE),
             agedTrack(c.ageDistribution, births, c.lifeExpectancy, FALSE))

stepFrom(c, peakAge, fertilitySchedule, born) ==
  stepWith(c, FertileSum(born, FALSE, 0),
           meanParentAgeOf(FertileSum(born, TRUE, 0),
                           FertileSum(born, FALSE, 0), peakAge),
           Sum(fertilitySchedule))

\* simulateStep() of the render c, computed from its closure.
simulateStep(c) ==
  LET params == getEffectiveParams(c)
      fertilitySchedule ==
        getFertilitySchedule(params.peakAge, params.spread,
                             params.secondPeak, c.totalFertility).schedule
  IN  stepFrom(c, params.peakAge, fertilitySchedule,
               birthsFromAge(c.femaleDistribution, fertilitySchedule))

(* ------------------------ what the screen shows ------------------------ *)
Undefined == [time |-> Null]

\* history[scrubIndex] when a scrub index is set, else the newest entry; an
\* index outside the array reads as undefined.
displayedHistoryEntry(c) ==
  LET idx == IF c.scrubIndex # Null THEN c.scrubIndex
             ELSE Len(c.history) - 1
  IN  IF idx >= 0 /\ idx < Len(c.history) THEN c.history[idx + 1]
      ELSE Undefined

\* A faulty display: the total track shown is always the live one.
displayedAgeDist_alwaysLive(c) == c.ageDistribution

\* scrubIndex !== null && displayedHistoryEntry?.xDistribution
\*   ? displayedHistoryEntry.xDistribution : xDistribution
displayedAgeDist(c) ==
  IF c.scrubIndex # Null /\ displayedHistoryEntry(c) # Undefined
    THEN displayedHistoryEntry(c).ageDistribution
    ELSE c.ageDistribution

displayedMaleDist(c) ==
  IF c.scrubIndex # Null /\ displayedHistoryEntry(c) # Undefined
    THEN displayedHistoryEntry(c).maleDistribution
    ELSE c.maleDistribution

displayedFemaleDist(c) ==
  IF c.scrubIndex # Null /\ displayedHistoryEntry(c) # Undefined
    THEN displayedHistoryEntry(c).femaleDistribution
    ELSE c.femaleDistribution

\* growthRate: history.length > 10
\*   ? (history[length - 1].population / history[length - 10].population - 1)
\*     * 100 / 10
\*   : 0,

\* currentFertilitySchedule: the memo of getFertilitySchedule under the
\* effective parameters and the total fertility of the render c.
scheduleOf(params, tfr) ==
  yearlySchedule(params.peakAge, params.spread, params.secondPeak, tfr)

currentFertilitySchedule(c) == scheduleOf(getEffectiveParams(c), c.totalFertility)

\* The schedule of the render c as normalised to the TFR, before the cap,
\* in millionths.
normalisedOf(params, tfr) ==
  normalisedSchedule(
    rawScheduleOn(numAges, params.peakAge, Max(params.spread, MIN_SIGMA),
                  params.secondPeak),
    Sum(rawScheduleOn(numAges, params.peakAge, Max(params.spread, MIN_SIGMA),
                      params.secondPeak)),
    tfr * Milli)

currentNormalised(c) == normalisedOf(getEffectiveParams(c), c.totalFertility)

\* in thousandths of a percent per year.
GROWTH_WINDOW == 10

growthRate(c) ==
  IF Len(c.history) > GROWTH_WINDOW
    THEN ((MulDiv(c.history[Len(c.history)].population, Milli,
                  c.history[Len(c.history) - (GROWTH_WINDOW - 1)].population)
           - Milli) * 100) \div GROWTH_WINDOW
    ELSE 0

\* The MetricBox values "Dep. Ratio" and "Median Age".
shownDependencyRatio(c) == c.debugInfo.dependencyRatio
shownMedianAge(c) == c.debugInfo.medianAge

(* ------------------------------- actions ------------------------------- *)
\* A click or input event is a discrete event: React runs the handler with
\* the closure of the last render and re-renders before the next task.
\* Updates made by an interval callback are rendered in a later task, so
\* further interval callbacks may run first, with the same closure.
RenderNow == rendered' = Snap'

Commit(r) ==
  /\ ageDistribution' = r.ageDistribution
  /\ maleDistribution' = r.maleDistribution
  /\ femaleDistribution' = r.femaleDistribution
  /\ debugInfo' = r.debugInfo

\* The setters of simulateStep: the three tracks and debugInfo are replaced,
\* history and time are updated functionally (h => ..., t => t + 1).
DoSimulateStepUpTo(c, bound) ==
  LET r == simulateStep(c)
  IN  /\ Len(history) < bound
      /\ Commit(r)
      /\ history' = appendEntry(history, r.entry)
      /\ time' = time + 1

DoSimulateStep(c) == DoSimulateStepUpTo(c, MaxHistory)

\* A faulty initialize, which forgets setScrubIndex(null).
DoInitialize_keepsScrub(c) ==
  LET r == initialize(c)
  IN  /\ Commit(r)
      /\ time' = r.time
      /\ UNCHANGED scrubIndex
      /\ history' = r.history

\* The setters of initialize.
DoInitialize(c) ==
  LET r == initialize(c)
  IN  /\ Commit(r)
      /\ time' = r.time
      /\ scrubIndex' = r.scrubIndex
      /\ history' = r.history

\* Play / Pause: setIsPlaying(!isPlaying).
TogglePlay ==
  /\ isPlaying' = ~rendered.isPlaying
  /\ UNCHANGED << isPlayingHistory, scrubIndex, simVars, paramVars, edits >>
  /\ RenderNow

\* The Step button, disabled while playing.
StepClick ==
  /\ ~rendered.isPlaying
  /\ DoSimulateStep(rendered)
  /\ UNCHANGED << isPlaying, isPlayingHistory, scrubIndex, paramVars, edits >>
  /\ RenderNow

\* The useState defaults of the first render.
Defaults ==
  [ isPlaying |-> FALSE, time |-> 0, scrubIndex |-> Null,
    isPlayingHistory |-> FALSE, scenario |-> "baseline",
    ageDistribution |-> << >>, maleDistribution |-> << >>,
    femaleDistribution |-> << >>, history |-> << >>,
    totalFertility |-> 2100, lifeExpectancy |-> 75,
    fertilitySpread |-> 7000, peakFertilityAge |-> 27,
    sexRatioBirth |-> 488, initialPopulation |-> 10000,
    debugInfo |-> [births |-> 0] ]

\* A faulty live interval, which calls the simulateStep of the mount, with
\* the parameters of that render.
LiveTick_mountParams ==
  /\ rendered.isPlaying
  /\ DoSimulateStep([rendered EXCEPT
                       !.totalFertility = Defaults.totalFertility,
                       !.lifeExpectancy = Defaults.lifeExpectancy,
                       !.sexRatioBirth = Defaults.sexRatioBirth,
                       !.peakFertilityAge = Defaults.peakFertilityAge,
                       !.fertilitySpread = Defaults.fertilitySpread])
  /\ UNCHANGED << isPlaying, isPlayingHistory, scrubIndex, paramVars, edits,
                  rendered >>

\* A faulty live interval, which the effect never clears.
LiveTick_neverCleared ==
  /\ DoSimulateStep(rendered)
  /\ UNCHANGED << isPlaying, isPlayingHistory, scrubIndex, paramVars, edits,
                  rendered >>

\* The live interval, set up by the effect of a render with isPlaying:
\* simulateStepRef.current(), the simulateStep of the last render.
LiveTick ==
  /\ rendered.isPlaying
  /\ DoSimulateStep(rendered)
  /\ UNCHANGED << isPlaying, isPlayingHistory, scrubIndex, paramVars, edits,
                  rendered >>

\* reset: setIsPlaying(false); initialize().
Reset ==
  /\ isPlaying' = FALSE
  /\ DoInitialize(rendered)
  /\ UNCHANGED << isPlayingHistory, paramVars, edits >>
  /\ RenderNow

\* A scenario button: setScenario(key); the render that follows runs the
\* effect of [scenario], initialize(), with its own closure.
SetScenario(key) ==
  /\ key # scenario
  /\ scenario' = key
  /\ DoInitialize([Snap EXCEPT !.scenario = key])
  /\ UNCHANGED << isPlaying, isPlayingHistory, totalFertility, lifeExpectancy,
                  fertilitySpread, peakFertilityAge, sexRatioBirth,
                  initialPopulation, edits >>
  /\ RenderNow

\* The sliders: onChange(Number(e.target.value)).
SetTotalFertility(v) ==
  /\ v # totalFertility /\ edits < MaxEdits /\ edits' = edits + 1
  /\ totalFertility' = v
  /\ UNCHANGED << isPlaying, isPlayingHistory, scrubIndex, simVars, scenario,
                  lifeExpectancy, fertilitySpread, peakFertilityAge,
                  sexRatioBirth, initialPopulation >>
  /\ RenderNow

SetLifeExpectancy(v) ==
  /\ v # lifeExpectancy /\ edits < MaxEdits /\ edits' = edits + 1
  /\ lifeExpectancy' = v
  /\ UNCHANGED << isPlaying, isPlayingHistory, scrubIndex, simVars, scenario,
                  totalFertility, fertilitySpread, peakFertilityAge,
                  sexRatioBirth, initialPopulation >>
  /\ RenderNow

SetSexRatioBirth(v) ==
  /\ v # sexRatioBirth /\ edits < MaxEdits /\ edits' = edits + 1
  /\ sexRatioBirth' = v
  /\ UNCHANGED << isPlaying, isPlayingHistory, scrubIndex, simVars, scenario,
                  totalFertility, lifeExpectancy, fertilitySpread,
                  peakFertilityAge, initialPopulation >>
  /\ RenderNow

\* The two sliders shown only under the custom scenario.
SetPeakFertilityAge(v) ==
  /\ rendered.scenario = "custom"
  /\ v # peakFertilityAge /\ edits < MaxEdits /\ edits' = edits + 1
  /\ peakFertilityAge' = v
  /\ UNCHANGED << isPlaying, isPlayingHistory, scrubIndex, simVars, scenario,
                  totalFertility, lifeExpectancy, fertilitySpread,
                  sexRatioBirth, initialPopulation >>
  /\ RenderNow

SetFertilitySpread(v) ==
  /\ rendered.scenario = "custom"
  /\ v # fertilitySpread /\ edits < MaxEdits /\ edits' = edits + 1
  /\ fertilitySpread' = v
  /\ UNCHANGED << isPlaying, isPlayingHistory, scrubIndex, simVars, scenario,
                  totalFertility, lifeExpectancy, peakFertilityAge,
                  sexRatioBirth, initialPopulation >>
  /\ RenderNow

SetInitialPopulation(v) ==
  /\ v # initialPopulation /\ edits < MaxEdits /\ edits' = edits + 1
  /\ initialPopulation' = v
  /\ UNCHANGED << isPlaying, isPlayingHistory, scrubIndex, simVars, scenario,
                  totalFertility, lifeExpectancy, fertilitySpread,
                  peakFertilityAge, sexRatioBirth >>
  /\ RenderNow

\* A faulty scrub, which sets whatever index it is given.
handleTimeScrub_unchecked(c, index, current) == index

\* A faulty scrub: the index is taken one too low.
handleTimeScrub_offByOne(c, index, current) ==
  IF index >= 0 /\ index < Len(c.history) THEN Max(0, index - 1)
  ELSE current

\* handleTimeScrub(index) of the render c: the scrub index it leaves.
handleTimeScrub(c, index, current) ==
  IF index >= 0 /\ index < Len(c.history) THEN index ELSE current

\* The scrubber (shown once the rendered history has two entries): its
\* buttons Start, Back, Forward, End and its range input all call
\* handleTimeScrub with an index of 0 .. history.length - 1.
TimeScrub(index) ==
  /\ Len(rendered.history) > 1
  /\ scrubIndex' = handleTimeScrub(rendered, index, scrubIndex)
  /\ UNCHANGED << isPlaying, isPlayingHistory, simVars, paramVars, edits >>
  /\ RenderNow

\* The playback button of the scrubber.
PlaybackButton ==
  /\ Len(rendered.history) > 1
  /\ IF rendered.isPlayingHistory
       THEN /\ isPlayingHistory' = FALSE
            /\ UNCHANGED scrubIndex
       ELSE /\ scrubIndex' = IF rendered.scrubIndex = Null THEN 0
                             ELSE scrubIndex
            /\ isPlayingHistory' = TRUE
  /\ UNCHANGED << isPlaying, simVars, paramVars, edits >>
  /\ RenderNow

\* jumpToLive: setScrubIndex(null).
jumpToLive == Null

\* The Live button, shown while viewing history.
LiveButton ==
  /\ Len(rendered.history) > 1
  /\ rendered.scrubIndex # Null
  /\ isPlayingHistory' = FALSE
  /\ scrubIndex' = jumpToLive
  /\ UNCHANGED << isPlaying, simVars, paramVars, edits >>
  /\ RenderNow

\* A faulty playback, which moves two entries at a time.
playbackNext_skips(c, prevIndex) ==
  LET current == IF prevIndex # Null THEN prevIndex ELSE Len(c.history) - 1
      next == current + 2
  IN  IF next >= Len(c.history) - 1
        THEN [scrubIndex |-> Len(c.history) - 1, stop |-> TRUE]
        ELSE [scrubIndex |-> next, stop |-> FALSE]

\* The playback interval of the render c: the updater of setScrubIndex.
playbackNext(c, prevIndex) ==
  LET current == IF prevIndex # Null THEN prevIndex ELSE Len(c.history) - 1
      next == current + 1
  IN  IF next >= Len(c.history) - 1
        THEN [scrubIndex |-> Len(c.history) - 1, stop |-> TRUE]
        ELSE [scrubIndex |-> next, stop |-> FALSE]

\* A faulty playback, which advances by running the simulation.
PlaybackTick_steps ==
  /\ rendered.isPlayingHistory
  /\ Len(rendered.history) > 0
  /\ DoSimulateStep(rendered)
  /\ scrubIndex' = Len(history)
  /\ UNCHANGED << isPlaying, isPlayingHistory, paramVars, edits, rendered >>

PlaybackTick ==
  /\ rendered.isPlayingHistory
  /\ Len(rendered.history) > 0
  /\ LET r == playbackNext(rendered, scrubIndex)
     IN  /\ scrubIndex' = r.scrubIndex
         /\ isPlayingHistory' = IF r.stop THEN FALSE ELSE isPlayingHistory
  /\ UNCHANGED << isPlaying, simVars, paramVars, edits, rendered >>

\* React renders the updates the interval callbacks made.
Render ==
  /\ rendered # Snap
  /\ rendered' = Snap
  /\ UNCHANGED << isPlaying, isPlayingHistory, scrubIndex, simVars, paramVars,
                  edits >>

(* ---------------------------- specification ---------------------------- *)
\* The mount: the first render holds the useState defaults and empty
\* arrays, its effect runs initialize(), and the component renders again.
Init ==
  LET r == initialize(Defaults)
  IN  /\ isPlaying = Defaults.isPlaying
      /\ isPlayingHistory = Defaults.isPlayingHistory
      /\ scenario = Defaults.scenario
      /\ totalFertility = Defaults.totalFertility
      /\ lifeExpectancy = Defaults.lifeExpectancy
      /\ fertilitySpread = Defaults.fertilitySpread
      /\ peakFertilityAge = Defaults.peakFertilityAge
      /\ sexRatioBirth = Defaults.sexRatioBirth
      /\ initialPopulation = Defaults.initialPopulation
      /\ ageDistribution = r.ageDistribution
      /\ maleDistribution = r.maleDistribution
      /\ femaleDistribution = r.femaleDistribution
      /\ debugInfo = r.debugInfo
      /\ time = r.time
      /\ scrubIndex = r.scrubIndex
      /\ history = r.history
      /\ edits = 0
      /\ rendered = Snap

Next ==
  \/ TogglePlay
  \/ StepClick
  \/ LiveTick
  \/ Reset
  \/ \E key \in ScenarioKeys : SetScenario(key)
  \/ \E v \in TotalFertilityValues : SetTotalFertility(v)
  \/ \E v \in LifeExpectancyValues : SetLifeExpectancy(v)
  \/ \E v \in SexRatioBirthValues : SetSexRatioBirth(v)
  \/ \E v \in PeakFertilityAgeValues : SetPeakFertilityAge(v)
  \/ \E v \in FertilitySpreadValues : SetFertilitySpread(v)
  \/ \E v \in InitialPopulationValues : SetInitialPopulation(v)
  \/ \E index \in 0 .. MaxHistory - 1 : TimeScrub(index)
  \/ PlaybackButton
  \/ LiveButton
  \/ PlaybackTick
  \/ Render

Spec == Init /\ [][Next]_vars

(* ------------------------------ long runs ------------------------------ *)
\* The runs of RunLength - 1 manual steps from a freshly initialized
\* population: the sliders were moved and a scenario chosen, and Reset was
\* clicked.
\* The page as initialize() leaves it under the configuration c.
StartFrom(c, r) ==
  /\ isPlaying = FALSE
  /\ isPlayingHistory = FALSE
  /\ scenario = c.scenario
  /\ totalFertility = c.totalFertility
  /\ lifeExpectancy = c.lifeExpectancy
  /\ fertilitySpread = c.fertilitySpread
  /\ peakFertilityAge = c.peakFertilityAge
  /\ sexRatioBirth = c.sexRatioBirth
  /\ initialPopulation = c.initialPopulation
  /\ ageDistribution = r.ageDistribution
  /\ maleDistribution = r.maleDistribution
  /\ femaleDistribution = r.femaleDistribution
  /\ debugInfo = r.debugInfo
  /\ time = r.time
  /\ scrubIndex = r.scrubIndex
  /\ history = r.history
  /\ edits = 0
  /\ rendered = Snap

Configured(c) == StartFrom(c, initialize(c))

RunInitWith(fertilities) ==
  \E key \in ScenarioKeys, tfr \in fertilities,
     e0 \in LifeExpectancyValues, srb \in SexRatioBirthValues,
     peak \in PeakFertilityAgeValues, spreadVal \in FertilitySpreadValues,
     population \in InitialPopulationValues :
    Configured([Defaults EXCEPT !.scenario = key, !.totalFertility = tfr,
                                !.lifeExpectancy = e0, !.sexRatioBirth = srb,
                                !.peakFertilityAge = peak,
                                !.fertilitySpread = spreadVal,
                                !.initialPopulation = population])

RunInit == RunInitWith(TotalFertilityValues)

\* The Step button, clicked up to RunLength - 1 times.
RunStep ==
  /\ ~rendered.isPlaying
  /\ DoSimulateStepUpTo(rendered, RunLength)
  /\ UNCHANGED << isPlaying, isPlayingHistory, scrubIndex, paramVars, edits >>
  /\ RenderNow

RunNext == RunStep

RunSpec == RunInit /\ [][RunNext]_vars

(* ------------------------- runs without fertility ----------------------- *)
\* The engine run with a total fertility of 0.  The TFR slider and its text
\* box keep totalFertility within 0.8 .. 6, so this value is an input of
\* getFertilitySchedule and simulateStep rather than a state the page shows:
\* the run starts from initialize() under it, is stepped with the Step
\* button and may have its life expectancy moved on the way.
ZeroInit == RunInitWith({0})

ZeroNext ==
  \/ RunStep
  \/ \E v \in LifeExpectancyValues : SetLifeExpectancy(v)

\* The guard of RunStep: what ENABLED RunStep comes to.
RunStepEnabled == ~rendered.isPlaying /\ Len(history) < RunLength

\* Steps keep coming for as long as the run lasts: weak fairness of
\* RunStep, with its enabling condition written out.
RunStepFair == []<>(~RunStepEnabled) \/ []<><<RunStep>>_vars

ZeroSpec == ZeroInit /\ [][ZeroNext]_vars /\ RunStepFair

(* ------------------------ runs that reach the guards -------------------- *)
\* Runs with the Step button from configurations within the sliders'
\* domains, among them the custom peak of 30 with the narrowest spread: on
\* the model's cohorts the raw shape of that schedule rounds to 0 at every
\* fertile cohort, so that its sum is 0, no births follow and the
\* population dies out.
GuardPeaks == {27, 30}

GuardInit ==
  \E key \in ScenarioKeys, tfr \in TotalFertilityValues,
     e0 \in LifeExpectancyValues, peak \in GuardPeaks,
     spreadVal \in FertilitySpreadValues,
     population \in InitialPopulationValues :
    Configured([Defaults EXCEPT !.scenario = key, !.totalFertility = tfr,
                                !.lifeExpectancy = e0,
                                !.peakFertilityAge = peak,
                                !.fertilitySpread = spreadVal,
                                !.initialPopulation = population])

GuardNext == RunStep

GuardSpec == GuardInit /\ [][GuardNext]_vars

(* ------------------------------ playback -------------------------------- *)
\* Playback left to itself, with live play paused.  A history is built with
\* the Step button and the cursor put anywhere on it; once the playback
\* button has started the playback, the user touches nothing until it has
\* stopped and the page has rendered that.
PlaybackInit == Configured(Defaults)

PlaybackStep == ~rendered.isPlayingHistory /\ RunStep

PlaybackScrub(index) == ~rendered.isPlayingHistory /\ TimeScrub(index)

PlaybackStart == ~rendered.isPlayingHistory /\ PlaybackButton

PlaybackLive == ~rendered.isPlayingHistory /\ LiveButton

PlaybackNext ==
  \/ PlaybackStep
  \/ \E index \in 0 .. RunLength - 1 : PlaybackScrub(index)
  \/ PlaybackStart
  \/ PlaybackLive
  \/ PlaybackTick
  \/ Render

\* The guard of a PlaybackTick that changes the state: what
\* ENABLED <<PlaybackTick>>_vars comes to.
PlaybackTickEnabled ==
  /\ rendered.isPlayingHistory
  /\ Len(rendered.history) > 0
  /\ \/ playbackNext(rendered, scrubIndex).scrubIndex # scrubIndex
     \/ playbackNext(rendered, scrubIndex).stop /\ isPlayingHistory

\* setInterval keeps calling back until the effect clears it: weak fairness
\* of PlaybackTick, with its enabling condition written out.
PlaybackTickFair == []<>(~PlaybackTickEnabled) \/ []<><<PlaybackTick>>_vars

PlaybackSpec == PlaybackInit /\ [][PlaybackNext]_vars /\ PlaybackTickFair

(* ---------------------- calls of getFertilitySchedule ------------------- *)
\* getFertilitySchedule as a function of its arguments.  The page calls it
\* with the effective peak and spread and with totalFertility; here the
\* three are the custom scenario's, and they range over the sliders'
\* domains and, for the TFR, beyond 6, where the function is defined as
\* well as within.
SchedulePeaks == {15, 27, 40, 50}
ScheduleSpreads == {2000, 2500, 4000, 7000, 15000}
ScheduleFertilities == {800, 2100, 4000, 6000, 7000, 8000}

ScheduleInit == Configured([Defaults EXCEPT !.scenario = "custom"])

\* The next call: its arguments replace the three parameters and the page
\* renders, recomputing currentFertilitySchedule.
ScheduleCall(peak, spreadVal, tfr) ==
  /\ peakFertilityAge' = peak
  /\ fertilitySpread' = spreadVal
  /\ totalFertility' = tfr
  /\ UNCHANGED << isPlaying, isPlayingHistory, scrubIndex, simVars, scenario,
                  lifeExpectancy, sexRatioBirth, initialPopulation, edits >>
  /\ RenderNow

ScheduleNext ==
  \E peak \in SchedulePeaks, spreadVal \in ScheduleSpreads,
     tfr \in ScheduleFertilities : ScheduleCall(peak, spreadVal, tfr)

ScheduleSpec == ScheduleInit /\ [][ScheduleNext]_vars

(* ------------- getFertilitySchedule under every scenario --------------- *)
\* The calls of getFertilitySchedule the page can make: the peak, the
\* spread and the second peak are those of getEffectiveParams, a preset's
\* or the sliders', and the TFR ranges from 0 to beyond the slider's 6.
EffectiveFertilities == {0, 800, 2100, 6000, 8000}
EffectivePeaks == {15, 50}
EffectiveSpreads == {2000, 15000}

EffectiveInit == Configured(Defaults)

EffectiveCall(key, peak, spreadVal, tfr) ==
  /\ scenario' = key
  /\ peakFertilityAge' = peak
  /\ fertilitySpread' = spreadVal
  /\ totalFertility' = tfr
  /\ UNCHANGED << isPlaying, isPlayingHistory, scrubIndex, simVars,
                  lifeExpectancy, sexRatioBirth, initialPopulation, edits >>
  /\ RenderNow

EffectiveNext ==
  \E key \in ScenarioKeys, peak \in EffectivePeaks,
     spreadVal \in EffectiveSpreads, tfr \in EffectiveFertilities :
    EffectiveCall(key, peak, spreadVal, tfr)

EffectiveSpec == EffectiveInit /\ [][EffectiveNext]_vars

(* ----------------------------- typed input ------------------------------ *)
\* The text box of a SliderControl.  What is typed is a string; parseFloat
\* reads the number at its head, in thousandths here, or NaN.
NaN == [nan |-> TRUE, value |-> 0]
Number(n) == [nan |-> FALSE, value |-> n]
isNaN(num) == num.nan

TypedEntries == {"", "abc", "-5", "0.5", "3", "40", "5000", "1e6", "12abc"}

parseFloat(text) ==
  CASE text = "-5" -> Number(0 - 5000)
    [] text = "0.5" -> Number(500)
    [] text = "3" -> Number(3000)
    [] text = "40" -> Number(40000)
    [] text = "5000" -> Number(5000000)
    [] text = "1e6" -> Number(1000000000)
    [] text = "12abc" -> Number(12000)
    [] OTHER -> NaN

\* min and max of each control, in the unit the model keeps its parameter
\* in, and the thousandths that unit holds.
controls ==
  [ totalFertility    |-> [min |-> 800, max |-> 6000, unit |-> 1],
    lifeExpectancy    |-> [min |-> 30, max |-> 95, unit |-> Milli],
    sexRatioBirth     |-> [min |-> 400, max |-> 600, unit |-> 1],
    peakFertilityAge  |-> [min |-> 15, max |-> 50, unit |-> Milli],
    fertilitySpread   |-> [min |-> 2000, max |-> 15000, unit |-> 1],
    initialPopulation |-> [min |-> 1000, max |-> 100000, unit |-> Milli] ]

\* A faulty blur, which passes the number on as it was typed.
handleInputBlur_unclamped(value, control, inputValue) ==
  IF ~isNaN(parseFloat(inputValue))
    THEN parseFloat(inputValue).value \div control.unit
    ELSE value

\* handleInputBlur: what the parameter is after the blur, onChange(clamped)
\* for a number and nothing for NaN.
handleInputBlur(value, control, inputValue) ==
  IF ~isNaN(parseFloat(inputValue))
    THEN Max(control.min * control.unit,
             Min(control.max * control.unit, parseFloat(inputValue).value))
         \div control.unit
    ELSE value

TypeTotalFertility(text) ==
  /\ totalFertility' = handleInputBlur(rendered.totalFertility,
                                       controls.totalFertility, text)
  /\ UNCHANGED << isPlaying, isPlayingHistory, scrubIndex, simVars, scenario,
                  lifeExpectancy, fertilitySpread, peakFertilityAge,
                  sexRatioBirth, initialPopulation, edits >>
  /\ RenderNow

TypeLifeExpectancy(text) ==
  /\ lifeExpectancy' = handleInputBlur(rendered.lifeExpectancy,
                                       controls.lifeExpectancy, text)
  /\ UNCHANGED << isPlaying, isPlayingHistory, scrubIndex, simVars, scenario,
                  totalFertility, fertilitySpread, peakFertilityAge,
                  sexRatioBirth, initialPopulation, edits >>
  /\ RenderNow

TypeSexRatioBirth(text) ==
  /\ sexRatioBirth' = handleInputBlur(rendered.sexRatioBirth,
                                      controls.sexRatioBirth, text)
  /\ UNCHANGED << isPlaying, isPlayingHistory, scrubIndex, simVars, scenario,
                  totalFertility, lifeExpectancy, fertilitySpread,
                  peakFertilityAge, initialPopulation, edits >>
  /\ RenderNow

TypePeakFertilityAge(text) ==
  /\ rendered.scenario = "custom"
  /\ peakFertilityAge' = handleInputBlur(rendered.peakFertilityAge,
                                         controls.peakFertilityAge, text)
  /\ UNCHANGED << isPlaying, isPlayingHistory, scrubIndex, simVars, scenario,
                  totalFertility, lifeExpectancy, fertilitySpread,
                  sexRatioBirth, initialPopulation, edits >>
  /\ RenderNow

TypeFertilitySpread(text) ==
  /\ rendered.scenario = "custom"
  /\ fertilitySpread' = handleInputBlur(rendered.fertilitySpread,
                                        controls.fertilitySpread, text)
  /\ UNCHANGED << isPlaying, isPlayingHistory, scrubIndex, simVars, scenario,
                  totalFertility, lifeExpectancy, peakFertilityAge,
                  sexRatioBirth, initialPopulation, edits >>
  /\ RenderNow

TypeInitialPopulation(text) ==
  /\ initialPopulation' = handleInputBlur(rendered.initialPopulation,
                                          controls.initialPopulation, text)
  /\ UNCHANGED << isPlaying, isPlayingHistory, scrubIndex, simVars, scenario,
                  totalFertility, lifeExpectancy, fertilitySpread,
                  peakFertilityAge, sexRatioBirth, edits >>
  /\ RenderNow

\* The parameter panel under the custom scenario, where all six controls
\* are shown.
PanelInit == Configured([Defaults EXCEPT !.scenario = "custom"])

PanelNext ==
  \/ \E text \in TypedEntries : TypeTotalFertility(text)
  \/ \E text \in TypedEntries : TypeLifeExpectancy(text)
  \/ \E text \in TypedEntries : TypeSexRatioBirth(text)
  \/ \E text \in TypedEntries : TypePeakFertilityAge(text)
  \/ \E text \in TypedEntries : TypeFertilitySpread(text)
  \/ \E text \in TypedEntries : TypeInitialPopulation(text)

PanelSpec == PanelInit /\ [][PanelNext]_vars

(* ------------------------------ properties ----------------------------- *)
\* Quantities are floored to a hundredth of a person at every product, so
\* sums that are equal in exact arithmetic may differ by a few hundredths;
\* a tenth of a person separates rounding from a real difference.
Rounding == PopScale \div 10

\* C1: the first entry of the history has time 0 and every entry's time is
\* one more than its predecessor's, so that history[i].time = i.
HistoryTimesAreIndices ==
  \A i \in 1 .. Len(history) : history[i].time = i - 1

\* C2: the history is append-only.  A step (the only change that advances
\* time by one) turns h into h followed by one new entry; any other change
\* of the history is a replacement by the one-entry log of initialize,
\* which clears the scrub index and touches neither the sliders nor the
\* playback flag; so scrubbing, playback and slider moves leave it alone.
HistoryAppendOnly ==
  [][ IF time' = time + 1
        THEN /\ Len(history') = Len(history) + 1
             /\ \A i \in 1 .. Len(history) : history'[i] = history[i]
        ELSE \/ history' = history
             \/ /\ Len(history') = 1
                /\ history'[1].time = 0
                /\ time' = 0
                /\ scrubIndex' = Null
                /\ isPlayingHistory' = isPlayingHistory
                /\ << totalFertility, lifeExpectancy, fertilitySpread,
                      peakFertilityAge, sexRatioBirth, initialPopulation >>'
                   = << totalFertility, lifeExpectancy, fertilitySpread,
                        peakFertilityAge, sexRatioBirth, initialPopulation >>
    ]_vars

\* Steps were appended, then the view was scrubbed back and a slider moved.
HistoryAppendOnlyWitness ==
  /\ Len(history) = MaxHistory
  /\ scrubIndex = 0
  /\ edits > 0
  /\ history[2].time = 1

\* C3: scrubbing to an index i of the history shows exactly the entry
\* recorded at i and its three distributions, and a later step changes
\* neither the scrub index nor what is shown.
ScrubShowsRecordedEntry ==
  [][ /\ \A i \in 0 .. MaxHistory - 1 :
           (i < Len(rendered.history) /\ TimeScrub(i)) =>
             /\ scrubIndex' = i
             /\ displayedHistoryEntry(Snap') = history[i + 1]
             /\ displayedAgeDist(Snap') = history[i + 1].ageDistribution
             /\ displayedMaleDist(Snap') = history[i + 1].maleDistribution
             /\ displayedFemaleDist(Snap') = history[i + 1].femaleDistribution
      /\ (time' = time + 1 /\ scrubIndex # Null) =>
             /\ scrubIndex' = scrubIndex
             /\ displayedHistoryEntry(Snap') = displayedHistoryEntry(Snap)
             /\ displayedAgeDist(Snap') = displayedAgeDist(Snap)
             /\ displayedMaleDist(Snap') = displayedMaleDist(Snap)
             /\ displayedFemaleDist(Snap') = displayedFemaleDist(Snap)
    ]_vars

\* The view was scrubbed to the first of two entries and rendered, and the
\* live timer has appended a third entry since.
ScrubShowsRecordedEntryWitness ==
  /\ rendered.scrubIndex = 0
  /\ Len(rendered.history) = 2
  /\ scrubIndex = 0
  /\ Len(history) = 3
  /\ displayedAgeDist(Snap) = history[1].ageDistribution
  /\ displayedAgeDist(Snap) # ageDistribution

\* C4: in every reachable state the total track is the sum of the male and
\* the female track at every age.
TotalIsMalePlusFemale ==
  \A i \in 1 .. NumAges :
    Abs(ageDistribution[i] - (maleDistribution[i] + femaleDistribution[i]))
      <= Rounding

\* C5: mass conservation: the population of every entry is that of its
\* predecessor minus the deaths plus the births recorded for the step.
MassConserved ==
  \A i \in 1 .. Len(history) - 1 :
    Abs(history[i + 1].population
        - (history[i].population - history[i + 1].deaths
           + history[i + 1].births)) <= Rounding

NonNegative ==
  /\ \A i \in 1 .. NumAges :
       /\ ageDistribution[i] >= 0
       /\ maleDistribution[i] >= 0
       /\ femaleDistribution[i] >= 0
  /\ \A k \in 1 .. Len(history) :
       /\ history[k].births >= 0
       /\ history[k].deaths >= 0
       /\ \A i \in 1 .. NumAges :
            /\ history[k].ageDistribution[i] >= 0
            /\ history[k].maleDistribution[i] >= 0
            /\ history[k].femaleDistribution[i] >= 0

\* Steps were taken under the lowest life expectancy, with deaths in every
\* one of them.
NonNegativeWitness ==
  /\ Len(history) = MaxHistory
  /\ lifeExpectancy = 30
  /\ \A k \in 2 .. Len(history) :
       history[k].deaths > 0 /\ history[k].lifeExpectancy = 30

\* C8: live stepping and history playback are mutually exclusive: no
\* reachable state has isPlaying and isPlayingHistory both true.
PlayModesExclusive == ~(isPlaying /\ isPlayingHistory)

ShownMetricsFollowDisplay ==
  /\ shownDependencyRatio(Snap) = dependencyRatioOf(displayedAgeDist(Snap))
  /\ shownMedianAge(Snap) = findMedianAge(displayedAgeDist(Snap))

\* C11: every history entry records the parameter values its computation
\* used: whenever an entry is written (by a step or by initialize), its
\* lifeExpectancy and totalFertility are the ones the hazard and the
\* schedule were computed from, its peakFertilityAge and fertilitySpread
\* are the effective ones of getEffectiveParams (the preset's under a
\* preset, the sliders' under custom), and a step's sexRatioBirth is the
\* one that split its births.
EntryRecordsParamsUsed ==
  [][ history' # history =>
        LET e == history'[Len(history')]
            used == getEffectiveParams(Snap')
        IN  /\ e.lifeExpectancy = lifeExpectancy'
            /\ e.totalFertility = totalFertility'
            /\ e.peakFertilityAge = used.peakAge
            /\ e.fertilitySpread = used.spread
            /\ time' = time + 1 =>
                 /\ e.sexRatioBirth = sexRatioBirth'
                 /\ e.femaleDistribution[1]
                      = femaleBirths(e.births, sexRatioBirth')
    ]_vars

\* C12: the realized growth rate is 0 while fewer than 10 steps are
\* recorded; otherwise it is computed from the population of the latest
\* entry and that of the entry exactly 10 steps earlier.
GrowthRateOverTenSteps ==
  growthRate(Snap) =
    IF Len(history) - 1 < 10 THEN 0
    ELSE ((MulDiv(history[Len(history)].population, Milli,
                  history[Len(history) - 10].population) - Milli) * 100)
         \div 10

\* C13: a full reset (the Reset button or a scenario change), in whatever
\* state it is invoked, leaves time 0, a history of exactly one entry with
\* time 0, the live view (scrub index null) and the distributions that
\* initialize builds from the configuration in force; the Reset button
\* also stops live play.
FullResetDiscardsRun ==
  [][ /\ (Reset \/ \E key \in ScenarioKeys : SetScenario(key)) =>
           /\ time' = 0
           /\ Len(history') = 1
           /\ history'[1].time = 0
           /\ scrubIndex' = Null
           /\ ageDistribution' = initialize(Snap').ageDistribution
           /\ maleDistribution' = initialize(Snap').maleDistribution
           /\ femaleDistribution' = initialize(Snap').femaleDistribution
           /\ history' = initialize(Snap').history
           /\ history'[1].ageDistribution = ageDistribution'
      /\ Reset => ~isPlaying'
    ]_vars

\* A scenario was changed while the live timer and the history playback
\* were both running: the run is gone, the two flags are still set.
FullResetDiscardsRunWitness ==
  /\ isPlaying /\ isPlayingHistory
  /\ scenario # Defaults.scenario
  /\ time = 0
  /\ Len(history) = 1
  /\ scrubIndex = Null

\* C14: with a total fertility of 0, whatever the life expectancy, every
\* step records no births, the population recorded by a step is at most
\* the population recorded before it, every cohort has left the last age
\* class after NumAges steps, leaving a population of 0, and the population
\* does reach 0.
ZeroFertilityDiesOut ==
  /\ [](\A i \in 2 .. Len(history) :
          /\ history[i].births = 0
          /\ history[i].femaleDistribution[1] = 0
          /\ history[i].maleDistribution[1] = 0
          /\ history[i].population <= history[i - 1].population)
  /\ [](Len(history) > NumAges =>
          /\ history[Len(history)].population = 0
          /\ Sum(ageDistribution) = 0)
  /\ <>(Sum(ageDistribution) = 0 /\ history[Len(history)].population = 0)

\* A run without fertility that began with people in it, lost some of them
\* at every step and has lost the last of them.
ZeroFertilityDiesOutWitness ==
  /\ totalFertility = 0
  /\ Len(history) = NumAges + 1
  /\ \A i \in 2 .. NumAges : 0 < history[i].population
                             /\ history[i].population < history[i - 1].population
  /\ history[NumAges + 1].population = 0
  /\ history[NumAges + 1].time = NumAges

\* C15: stopping a timer halts its ticks.  A transition that renders
\* nothing is a timer callback (every click handler renders).  Once live
\* play is stopped no such transition touches the distributions, the
\* history, the time or the step's figures; once history playback is
\* stopped no such transition moves the scrub index; and a step is
\* committed whole or not at all: the history has one entry per unit of
\* time and the live distributions are those of its latest entry.
StoppedTimersStayStill ==
  /\ [][~isPlaying /\ rendered' = rendered => UNCHANGED simVars]_vars
  /\ [][~isPlayingHistory /\ rendered' = rendered
          => scrubIndex' = scrubIndex]_vars
  /\ [](/\ Len(history) = time + 1
        /\ ageDistribution = history[Len(history)].ageDistribution
        /\ maleDistribution = history[Len(history)].maleDistribution
        /\ femaleDistribution = history[Len(history)].femaleDistribution
        /\ debugInfo.births = history[Len(history)].births
        /\ debugInfo.deaths = history[Len(history)].deaths)

\* Live play was stopped after two ticks of one render, and the playback
\* has just stopped itself at the last entry, not yet rendered.
StoppedTimersStayStillWitness ==
  /\ ~isPlaying
  /\ Len(history) = 3
  /\ history[3].time = history[2].time
  /\ ~isPlayingHistory
  /\ rendered.isPlayingHistory
  /\ scrubIndex = 2

\* C16: the playback cursor and manual scrubbing only read the simulation.
\* A playback tick, handleTimeScrub and jumpToLive change nothing but the
\* scrub index and the playback flag: the three distributions, the time,
\* the history and the step's figures stay as they were, as do the
\* parameters and the live-play flag; and whatever moves the cursor onto a
\* history entry leaves the simulation alone.
ScrubbingOnlyReads ==
  /\ [][(PlaybackTick \/ LiveButton
           \/ \E index \in 0 .. MaxHistory - 1 : TimeScrub(index))
          => UNCHANGED << simVars, paramVars, isPlaying >>]_vars
  /\ [][scrubIndex' # scrubIndex /\ scrubIndex' # Null
          => UNCHANGED << simVars, paramVars, isPlaying >>]_vars

\* A playback tick has moved the cursor from entry 0 to entry 1 of a
\* three-entry history, which the page has not rendered yet.
ScrubbingOnlyReadsWitness ==
  /\ isPlayingHistory
  /\ Len(history) = 3
  /\ time = 2
  /\ rendered.scrubIndex = 0
  /\ scrubIndex = 1

\* One millionth of a birth for each cohort, twice: what the sum of a
\* yearly schedule may lose to rounding.
ScheduleRounding == 2 * numAges

meetsTargetOrFlagsCap(r, normalised, tfr) ==
  IF \E i \in 1 .. Len(normalised) : normalised[i] > MAX_ASFR * Milli
    THEN /\ r.biologicallyCapped
         /\ Sum(r.schedule) = r.effectiveTFR
         /\ r.effectiveTFR < tfr * Milli - ScheduleRounding
    ELSE /\ ~r.biologicallyCapped
         /\ Abs(Sum(r.schedule) - tfr * Milli) <= ScheduleRounding

NarrowSpreadAtTopFertilityIsCapped ==
  (totalFertility = 6000 /\ fertilitySpread = MIN_SIGMA) =>
    /\ currentFertilitySchedule(Snap).biologicallyCapped
    /\ currentFertilitySchedule(Snap).effectiveTFR
         < 6000 * Milli - ScheduleRounding
InDomain(value, control) == control.min <= value /\ value <= control.max

\* What the claim says of one committed text: below min gives min, above
\* max gives max, no number gives the value there was.
clampedNotRejected(before, after, control, text) ==
  /\ isNaN(parseFloat(text)) => after = before
  /\ ~isNaN(parseFloat(text)) =>
       /\ parseFloat(text).value < control.min * control.unit
            => after = control.min
       /\ parseFloat(text).value > control.max * control.unit
            => after = control.max
       /\ InDomain(after, control)

\* C19: out-of-domain input is clamped, not rejected.  A typed value below
\* min or above max sets the parameter to the nearest bound, a text that is
\* no number leaves it as it was, and so each of the six parameters lies
\* within its documented domain in every reachable state.
TypedInputIsClamped ==
  /\ [](/\ InDomain(totalFertility, controls.totalFertility)
        /\ InDomain(lifeExpectancy, controls.lifeExpectancy)
        /\ InDomain(sexRatioBirth, controls.sexRatioBirth)
        /\ InDomain(peakFertilityAge, controls.peakFertilityAge)
        /\ InDomain(fertilitySpread, controls.fertilitySpread)
        /\ InDomain(initialPopulation, controls.initialPopulation))
  /\ [][\A text \in TypedEntries :
          /\ TypeTotalFertility(text) =>
               clampedNotRejected(totalFertility, totalFertility',
                                  controls.totalFertility, text)
          /\ TypeLifeExpectancy(text) =>
               clampedNotRejected(lifeExpectancy, lifeExpectancy',
                                  controls.lifeExpectancy, text)
          /\ TypeSexRatioBirth(text) =>
               clampedNotRejected(sexRatioBirth, sexRatioBirth',
                                  controls.sexRatioBirth, text)
          /\ TypePeakFertilityAge(text) =>
               clampedNotRejected(peakFertilityAge, peakFertilityAge',
                                  controls.peakFertilityAge, text)
          /\ TypeFertilitySpread(text) =>
               clampedNotRejected(fertilitySpread, fertilitySpread',
                                  controls.fertilitySpread, text)
          /\ TypeInitialPopulation(text) =>
               clampedNotRejected(initialPopulation, initialPopulation',
                                  controls.initialPopulation, text)]_vars

\* Every parameter sits on a bound of its control, which no typed text
\* names: three were typed too high, three too low.
TypedInputIsClampedWitness ==
  /\ totalFertility = controls.totalFertility.max
  /\ initialPopulation = controls.initialPopulation.max
  /\ peakFertilityAge = controls.peakFertilityAge.max
  /\ lifeExpectancy = controls.lifeExpectancy.min
  /\ sexRatioBirth = controls.sexRatioBirth.min
  /\ fertilitySpread = controls.fertilitySpread.min

\* The configuration of the render c and nothing else of it: the page as
\* it is before anything has run.
configurationOf(c) ==
  [Defaults EXCEPT !.scenario = c.scenario,
                   !.initialPopulation = c.initialPopulation,
                   !.lifeExpectancy = c.lifeExpectancy,
                   !.totalFertility = c.totalFertility,
                   !.peakFertilityAge = c.peakFertilityAge,
                   !.fertilitySpread = c.fertilitySpread,
                   !.sexRatioBirth = c.sexRatioBirth]

sameStart(r) ==
  /\ ageDistribution' = r.ageDistribution
  /\ maleDistribution' = r.maleDistribution
  /\ femaleDistribution' = r.femaleDistribution
  /\ history'[1] = r.history[1]

\* C20: initialize is deterministic and blind to the state before the call.
\* Whatever state the Reset button or a scenario change finds, the three
\* distributions and the first history entry it leaves are those that
\* initialize gives a page that has run nothing under the same scenario,
\* initial population, life expectancy, TFR, peak age, spread and sex
\* ratio at birth.
InitializeIgnoresPriorState ==
  [][(Reset \/ \E key \in ScenarioKeys : SetScenario(key))
       => sameStart(initialize(configurationOf(Snap')))]_vars

\* A run was initialized anew while its history was played back, after a
\* slider had been moved: the playback flag outlives the run it played.
InitializeIgnoresPriorStateWitness ==
  /\ isPlayingHistory
  /\ scrubIndex = Null
  /\ Len(history) = 1
  /\ edits = 1
  /\ ~isPlaying
  /\ rendered = Snap

\* The start that initialize gives: the total track sums to P, is
\* proportional to the curve, and is split in two equal halves.
startsFromCurve(total, male, female, population, curve) ==
  /\ Abs(Sum(total) - population * PopScale) <= NumAges
  /\ \A i, j \in 1 .. NumAges :
       Abs(total[i] * curve[j] - total[j] * curve[i]) <= Milli
  /\ \A i \in 1 .. NumAges :
       /\ male[i] = female[i]
       /\ total[i] - 1 <= male[i] + female[i]
       /\ male[i] + female[i] <= total[i]

\* C21: after initialize the total distribution sums to the configured
\* initialPopulation and is proportional to the female survival curve, and
\* the male and the female distribution are each half of it at every age,
\* whatever the sex ratio at birth.
InitialDistributionFromCurve ==
  [][(Reset \/ \E key \in ScenarioKeys : SetScenario(key))
       => startsFromCurve(ageDistribution', maleDistribution',
                          femaleDistribution', initialPopulation',
                          getSurvivalCurve(lifeExpectancy', FALSE))]_vars

\* A run initialized after the sex ratio at birth was moved off its
\* default: the two sexes start equal all the same.
InitialDistributionFromCurveWitness ==
  /\ sexRatioBirth # Defaults.sexRatioBirth
  /\ time = 0
  /\ Len(history) = 1
  /\ history[1].sexRatioBirth = sexRatioBirth
  /\ maleDistribution = femaleDistribution
  /\ Sum(ageDistribution) > 0

\* The schedule a step of the state's own parameters works with.
liveSchedule ==
  getFertilitySchedule(getEffectiveParams(Snap).peakAge,
                       getEffectiveParams(Snap).spread,
                       getEffectiveParams(Snap).secondPeak,
                       totalFertility).schedule

\* C22: each step is atomic and reads only the pre-tick snapshot.  The
\* births are the sum of beta(a) * old_female[a] over the fertile ages,
\* every track's cohort a > 0 is max(0, old[a - 1] * survivalProb(a - 1)),
\* so that the live state advances by one year upon the state the previous
\* entry recorded, and the three tracks, the time and the history entry
\* are committed together, also when two steps run before a render.
StepReadsPreTickSnapshot ==
  [][time' = time + 1 =>
       LET e == history'[Len(history')]
       IN  /\ Len(history') = Len(history) + 1
           /\ e.births = FertileSum(birthsFromAge(femaleDistribution,
                                                  liveSchedule), FALSE, 0)
           /\ femaleDistribution' =
                agedTrack(femaleDistribution,
                          femaleBirths(e.births, sexRatioBirth),
                          lifeExpectancy, FALSE)
           /\ maleDistribution' =
                agedTrack(maleDistribution,
                          maleBirths(e.births, sexRatioBirth),
                          lifeExpectancy, TRUE)
           /\ ageDistribution' =
                agedTrack(ageDistribution, e.births, lifeExpectancy, FALSE)
           /\ e.ageDistribution = ageDistribution'
           /\ e.maleDistribution = maleDistribution'
           /\ e.femaleDistribution = femaleDistribution'
     ]_vars

emptied(track) == [track EXCEPT ![NumAges] = 0]

\* The births recorded by the entries first + 1 .. last of the log h.
RECURSIVE birthsBetween(_, _, _)
birthsBetween(h, first, last) ==
  IF first >= last THEN 0
  ELSE h[last].births + birthsBetween(h, first, last - 1)

\* Every cohort of the newest entry of h entered its track at age 0, in the
\* entry as many steps back as the cohort is old.
enteredAtAgeZero(h, track) ==
  \A i \in 1 .. NumAges :
    Len(h) - i + 1 >= 1 =>
      h[Len(h)][track][i] <= h[Len(h) - i + 1][track][1]

\* C24: index N-1 is a terminal, absorbing bucket in every track.  A step
\* computes the same births and the same new cohorts of all three tracks
\* when the oldest cohorts are emptied before it; the whole old total[N-1]
\* is counted in the step's deaths; and a cohort is gone N steps after it
\* entered at age 0: every cohort of an entry entered during the N steps
\* before it, so that the population N steps on is at most the births of
\* those N steps.
OldestCohortIsAbsorbed ==
  [][time' = time + 1 =>
       /\ debugInfo'.births =
            FertileSum(birthsFromAge(emptied(femaleDistribution), liveSchedule),
                       FALSE, 0)
       /\ femaleDistribution' =
            agedTrack(emptied(femaleDistribution), femaleDistribution'[1],
                      lifeExpectancy, FALSE)
       /\ maleDistribution' =
            agedTrack(emptied(maleDistribution), maleDistribution'[1],
                      lifeExpectancy, TRUE)
       /\ ageDistribution' =
            agedTrack(emptied(ageDistribution), ageDistribution'[1],
                      lifeExpectancy, FALSE)
       /\ debugInfo'.deaths =
            stepDeaths(emptied(ageDistribution), lifeExpectancy)
            + ageDistribution[NumAges]
       /\ enteredAtAgeZero(history', "ageDistribution")
       /\ enteredAtAgeZero(history', "maleDistribution")
       /\ enteredAtAgeZero(history', "femaleDistribution")
       /\ Len(history') > NumAges =>
            history'[Len(history')].population
              <= birthsBetween(history', Len(history') - NumAges, Len(history'))
     ]_vars

\* N steps and more have been run, the oldest cohorts were occupied before
\* the last of them and died in it, and the cohorts of the start are gone.
OldestCohortIsAbsorbedWitness ==
  /\ Len(history) > NumAges
  /\ history[Len(history) - 1].ageDistribution[NumAges] > 0
  /\ history[Len(history) - 1].maleDistribution[NumAges] > 0
  /\ history[Len(history) - 1].femaleDistribution[NumAges] > 0
  /\ debugInfo.deaths >= history[Len(history) - 1].ageDistribution[NumAges]
  /\ history[1].ageDistribution[1] > 0
  /\ history[Len(history)].population
       <= birthsBetween(history, Len(history) - NumAges, Len(history))

\* What the claim says of one returned schedule r, in millionths, for the
\* target tfr in thousandths.
withinWindowAndCeiling(r, tfr) ==
  /\ \A i \in 1 .. Len(r.schedule) :
       /\ ~FertileOn(Len(r.schedule), i - 1) => r.schedule[i] = 0
       /\ 0 <= r.schedule[i]
       /\ r.schedule[i] <= MAX_ASFR * Milli
  /\ r.effectiveTFR = Sum(r.schedule)
  /\ r.effectiveTFR <= tfr * Milli

\* C25: for every input of getFertilitySchedule (peak, spread, optional
\* second peak, TFR >= 0), also after the cap and the redistribution, the
\* schedule is 0 at every age outside [12, 55), lies between 0 and MAX_ASFR
\* at every age, and its sum, the effectiveTFR, does not exceed the target
\* TFR.
ScheduleWithinWindowAndCeiling ==
  withinWindowAndCeiling(currentFertilitySchedule(Snap), totalFertility)

\* A call where the ceiling binds and the lost fertility is redistributed.
ScheduleWithinWindowAndCeilingWitness ==
  /\ currentFertilitySchedule(Snap).biologicallyCapped
  /\ \E i \in 1 .. numAges :
       currentFertilitySchedule(Snap).schedule[i] = MAX_ASFR * Milli
  /\ currentFertilitySchedule(Snap).effectiveTFR
       > Sum(cappedSchedule(currentNormalised(Snap), MAX_ASFR * Milli))
  /\ currentFertilitySchedule(Snap).effectiveTFR <= totalFertility * Milli

\* The raw shape Math.exp(...) * biologicalDecline of the state's effective
\* parameters, on the model's cohorts.
liveRawSchedule ==
  rawSchedule(getEffectiveParams(Snap).peakAge,
              Max(getEffectiveParams(Snap).spread, MIN_SIGMA),
              getEffectiveParams(Snap).secondPeak)

\* What the claim says of one history entry e under the effective peak age.
guardedEntry(e, peakAge) ==
  /\ e.births = 0 => e.meanParentAge = peakAge * Centi
  /\ e.births > 0 =>
       /\ FERTILE_FROM * Centi <= e.meanParentAge
       /\ e.meanParentAge < FERTILE_TO * Centi
  /\ SliceSum(e.ageDistribution, 15, 65) = 0 => e.dependencyRatio = 0
  /\ e.dependencyRatio >= 0

\* C26: the guards against division by zero.  An entry of initialize or of
\* a step with births = 0 records the effective peak age as meanParentAge;
\* an entry whose working ages (15..64) are empty records a dependencyRatio
\* of 0; when the raw fertility shape sums to 0 the all-zero schedule is
\* returned; and every entry's meanParentAge and dependencyRatio is a
\* number: an age within the fertile window or the peak age, and a ratio
\* that is not negative.
DivisionGuards ==
  /\ \A i \in 1 .. Len(history) :
       guardedEntry(history[i], getEffectiveParams(Snap).peakAge)
  /\ Sum(liveRawSchedule) = 0 =>
       /\ \A i \in 1 .. NumAges : liveSchedule[i] = 0
       /\ \A i \in 1 .. Len(history) : history[i].births = 0

\* A run under a raw shape that sums to 0: no births at initialize or in
\* any step, the peak age recorded as meanParentAge, and, the population
\* having died out, a dependencyRatio of 0.
DivisionGuardsWitness ==
  /\ Sum(liveRawSchedule) = 0
  /\ totalFertility > 0
  /\ Len(history) > NumAges
  /\ history[1].births = 0
  /\ history[1].meanParentAge = peakFertilityAge * Centi
  /\ SliceSum(history[1].ageDistribution, 15, 65) > 0
  /\ history[Len(history)].births = 0
  /\ history[Len(history)].meanParentAge = peakFertilityAge * Centi
  /\ SliceSum(history[Len(history)].ageDistribution, 15, 65) = 0
  /\ history[Len(history)].dependencyRatio = 0

\* The indices handleTimeScrub may be called with, those outside the
\* history among them.
ScrubRequests == (0 - 1) .. MaxHistory

PlaybackRunsToTheEnd ==
  /\ [][~rendered.isPlayingHistory /\ isPlayingHistory' /\ scrubIndex = Null
          => scrubIndex' = 0]_vars
  /\ [][rendered.isPlayingHistory /\ scrubIndex' # scrubIndex
          => scrubIndex # Null /\ scrubIndex' = scrubIndex + 1]_vars
  /\ [][isPlayingHistory /\ ~isPlayingHistory'
          => scrubIndex' = Len(history) - 1]_vars
  /\ isPlayingHistory
       ~> (~isPlayingHistory /\ scrubIndex = Len(history) - 1)

\* Playback was started from the live view of a history of four entries or
\* more and has run from entry 0 to the newest, where it stopped; the page
\* has not rendered since the start.
PlaybackRunsToTheEndWitness ==
  /\ ~isPlaying
  /\ rendered.isPlayingHistory
  /\ rendered.scrubIndex = 0
  /\ ~isPlayingHistory
  /\ Len(history) >= 4
  /\ scrubIndex = Len(history) - 1

\* C29: in every state the simulation time is history.length - 1, and it is
\* the time of the newest history entry.
TimeIsNewestEntrysTime ==
  /\ time = Len(history) - 1
  /\ time = history[Len(history)].time

\* C30: in every state the live total, male and female distributions are
\* those stored in the newest history entry, and that entry's population is
\* the sum of the live total distribution.
LiveStateIsNewestEntry ==
  /\ history[Len(history)].ageDistribution = ageDistribution
  /\ history[Len(history)].maleDistribution = maleDistribution
  /\ history[Len(history)].femaleDistribution = femaleDistribution
  /\ history[Len(history)].population = Sum(ageDistribution)

\* Two ticks of the live interval have run since the last render: the live
\* distributions have moved on from those of the start and of the render,
\* and the newest entry holds them.
LiveStateIsNewestEntryWitness ==
  /\ isPlaying
  /\ Len(history) = 3
  /\ Len(rendered.history) = 1
  /\ ageDistribution # history[1].ageDistribution
  /\ ageDistribution # rendered.ageDistribution
  /\ history[3].ageDistribution = ageDistribution
  /\ history[3].population = Sum(ageDistribution)

=============================================================================
